---- MODULE Spec2Model ----
(***************************************************************************)
(* Model of Kiro/generate_skills_and_agents.py: the static tables, the     *)
(* capability resolver build_mcp_servers (with the object identities that  *)
(* dict.copy() shares or separates), the SKILL.md template and the batch   *)
(* loop process_agents over the agents directory.                          *)
(***************************************************************************)
EXTENDS Integers, Sequences, FiniteSets, TLC

VARIABLES
    agents,      \* AGENTS_DIR: file name -> file content
    skills,      \* SKILLS_DIR: agent name -> SKILL.md (or no file)
    status,      \* "idle", "running", "done" or "aborted" (unhandled fault)
    idx,         \* position of the loop in sorted(os.listdir(AGENTS_DIR))
    pc,          \* "load" (lines 134-157) or "update" (lines 159-182)
    agent,       \* the record json.load returned for the current file
    runs,        \* number of runs of process_agents started so far
    orig,        \* history: directory content before the first run
    runStart,    \* history: both directories when the current run started
    outputs,     \* history: both directories after each completed run
    list_heap,   \* list objects (argument sequences), by identity
    dict_heap,   \* env dict objects, by identity
    resolved,    \* caller -> the mapping build_mcp_servers returned to it
    mutations    \* number of in-place changes callers made so far

pipeVars == <<agents, skills, status, idx, pc, agent, runs, orig, runStart, outputs>>
mcpVars == <<list_heap, dict_heap, resolved, mutations>>
vars == <<pipeVars, mcpVars>>

----------------------------------------------------------------------------
(* Bounds of the model *)
MaxRuns == 3
MaxMutations == 1

(* agent["prompt"][:200] *)
PromptBudget == 200

----------------------------------------------------------------------------
(* Python string operations, on TLA+ strings *)

Min(a, b) == IF a <= b THEN a ELSE b

\* s[:n]
Prefix(s, n) == SubSeq(s, 1, Min(n, Len(s)))

\* s.endswith(suffix)
endswith(s, suffix) ==
    /\ Len(s) >= Len(suffix)
    /\ SubSeq(s, Len(s) - Len(suffix) + 1, Len(s)) = suffix

\* s.replace(old, new): every non-overlapping occurrence, scanning from the left
RECURSIVE replace(_, _, _)
replace(s, old, new) ==
    IF Len(s) < Len(old) THEN s
    ELSE IF SubSeq(s, 1, Len(old)) = old
         THEN new \o replace(SubSeq(s, Len(old) + 1, Len(s)), old, new)
         ELSE SubSeq(s, 1, 1) \o replace(SubSeq(s, 2, Len(s)), old, new)

\* code points in increasing order, as far as the file names use them
CodePoints == "-.0123456789ABCDEFGHIJKLMNOPQRSTUVWXYZ_abcdefghijklmnopqrstuvwxyz"

ord(c) == CHOOSE i \in 1..Len(CodePoints) : SubSeq(CodePoints, i, i) = c

\* a < b on str
RECURSIVE StrLess(_, _)
StrLess(a, b) ==
    IF Len(b) = 0 THEN FALSE
    ELSE IF Len(a) = 0 THEN TRUE
    ELSE IF SubSeq(a, 1, 1) = SubSeq(b, 1, 1)
         THEN StrLess(SubSeq(a, 2, Len(a)), SubSeq(b, 2, Len(b)))
         ELSE ord(SubSeq(a, 1, 1)) < ord(SubSeq(b, 1, 1))

\* sorted(names)
RECURSIVE sorted(_)
sorted(S) ==
    IF S = {} THEN <<>>
    ELSE LET m == CHOOSE x \in S : \A y \in S \ {x} : StrLess(x, y)
         IN  <<m>> \o sorted(S \ {m})

----------------------------------------------------------------------------
(* The static tables *)

\* identity of the args list of each MCP_SERVERS entry
ArgsId ==
    ("filesystem" :> 1) @@
    ("memory" :> 2) @@
    ("context7" :> 3) @@
    ("sequential-thinking" :> 4) @@
    ("puppeteer" :> 5) @@
    ("playwright" :> 6) @@
    ("dynamodb" :> 7) @@
    ("aws-kb" :> 8)

\* the list objects MCP_SERVERS holds when the module is loaded
InitLists == <<
    <<"-y", "@modelcontextprotocol/server-filesystem", "$HOME">>,
    <<"-y", "@modelcontextprotocol/server-memory">>,
    <<"-y", "@upstash/context7-mcp@latest">>,
    <<"-y", "@modelcontextprotocol/server-sequential-thinking">>,
    <<"-y", "@modelcontextprotocol/server-puppeteer">>,
    <<"-y", "@playwright/mcp">>,
    <<"awslabs.dynamodb-mcp-server@latest">>,
    <<"-y", "@modelcontextprotocol/server-aws-kb-retrieval">>
>>

\* identity of the env dict of the MCP_SERVERS entries that have one
EnvId ==
    ("dynamodb" :> 1) @@
    ("aws-kb" :> 2)

\* the env dict objects MCP_SERVERS holds when the module is loaded
InitDicts == <<
    ("AWS_REGION" :> "ap-southeast-2" @@ "AWS_PROFILE" :> "default" @@ "DDB-MCP-READONLY" :> "false"),
    ("AWS_PROFILE" :> "default")
>>

\* MCP_SERVERS: each descriptor holds its command and references to its
\* args list and, when it has one, its env dict
MCP_SERVERS ==
    ("filesystem" :> [command |-> "npx", args |-> ArgsId["filesystem"]]) @@
    ("memory" :> [command |-> "npx", args |-> ArgsId["memory"]]) @@
    ("context7" :> [command |-> "npx", args |-> ArgsId["context7"]]) @@
    ("sequential-thinking" :> [command |-> "npx", args |-> ArgsId["sequential-thinking"]]) @@
    ("puppeteer" :> [command |-> "npx", args |-> ArgsId["puppeteer"]]) @@
    ("playwright" :> [command |-> "npx", args |-> ArgsId["playwright"]]) @@
    ("dynamodb" :> [command |-> "uvx", args |-> ArgsId["dynamodb"], env |-> EnvId["dynamodb"]]) @@
    ("aws-kb" :> [command |-> "npx", args |-> ArgsId["aws-kb"], env |-> EnvId["aws-kb"]])

AGENT_MCPS ==
    ("architecture-expert" :> <<"context7", "sequential-thinking", "aws-kb">>) @@
    ("cdk-expert-ts" :> <<"context7", "aws-kb">>) @@
    ("cdk-expert-python" :> <<"context7", "aws-kb">>) @@
    ("code-reviewer" :> <<>>) @@
    ("data-scientist" :> <<"context7", "dynamodb", "aws-kb">>) @@
    ("devops-engineer" :> <<"context7", "playwright">>) @@
    ("documentation-engineer" :> <<"context7">>) @@
    ("frontend-engineer-ts" :> <<"context7">>) @@
    ("frontend-engineer-dart" :> <<"context7">>) @@
    ("linux-specialist" :> <<>>) @@
    ("product-manager" :> <<>>) @@
    ("project-coordinator" :> <<>>) @@
    ("python-backend" :> <<"context7", "dynamodb", "aws-kb">>) @@
    ("python-test-engineer" :> <<"context7", "dynamodb">>) @@
    ("security-specialist" :> <<"context7", "sequential-thinking", "aws-kb">>) @@
    ("test-coordinator" :> <<"playwright">>) @@
    ("typescript-test-engineer" :> <<"context7", "sequential-thinking", "puppeteer", "playwright">>) @@
    ("ui-ux-designer" :> <<"context7", "puppeteer">>)

BRIEF_PROMPTS ==
    ("architecture-expert" :>
        "You are a pragmatic AWS solutions architect. Follow the detailed guidelines in your skill resource for security, scalability, cost-effectiveness, and caching strategies.") @@
    ("cdk-expert-ts" :>
        "You are an AWS CDK expert specializing in TypeScript infrastructure as code. Follow the detailed guidelines in your skill resource.") @@
    ("cdk-expert-python" :>
        "You are an AWS CDK expert specializing in Python infrastructure as code. Follow the detailed guidelines in your skill resource.") @@
    ("code-reviewer" :>
        "You are a senior engineer reviewing for security, architecture, and unnecessary complexity. Follow the detailed guidelines in your skill resource.") @@
    ("data-scientist" :>
        "You are a data scientist and data engineer with deep expertise in AWS data services, big data processing, and machine learning. Follow the detailed guidelines in your skill resource.") @@
    ("devops-engineer" :>
        "You are a DevOps engineer specializing in secure CI/CD pipelines, load testing, and monitoring. Follow the detailed guidelines in your skill resource.") @@
    ("documentation-engineer" :>
        "You are a documentation engineer focused on clear, concise, up-to-date documentation. Follow the detailed guidelines in your skill resource.") @@
    ("frontend-engineer-ts" :>
        "You are a frontend engineer focused on simple, clean React with TypeScript. Follow the detailed guidelines in your skill resource.") @@
    ("frontend-engineer-dart" :>
        "You are a frontend engineer focused on clean, idiomatic Flutter and Dart. Follow the detailed guidelines in your skill resource.") @@
    ("linux-specialist" :>
        "You are a Linux SME with deep command line, git, and containerization expertise. Follow the detailed guidelines in your skill resource.") @@
    ("product-manager" :>
        "You are a product manager focused on spec-driven development and feature preservation. Follow the detailed guidelines in your skill resource.") @@
    ("project-coordinator" :>
        "You are a project coordinator responsible for maintaining project context and orchestrating agent collaboration. Follow the detailed guidelines in your skill resource.") @@
    ("python-backend" :>
        "You are a Senior Python 3.12 backend engineer focused on clean, typed, functional code with database expertise. Follow the detailed guidelines in your skill resource.") @@
    ("python-test-engineer" :>
        "You are a Python test engineer writing pragmatic pytest tests and enforcing code standards. Follow the detailed guidelines in your skill resource.") @@
    ("security-specialist" :>
        "You are a senior application security engineer specializing in secure development, threat modeling, and cloud security hardening. Follow the detailed guidelines in your skill resource.") @@
    ("test-coordinator" :>
        "You are a test coordinator enforcing test-driven development and quality standards. Follow the detailed guidelines in your skill resource.") @@
    ("typescript-test-engineer" :>
        "You are a TypeScript test engineer for pragmatic testing and code quality. Follow the detailed guidelines in your skill resource.") @@
    ("ui-ux-designer" :>
        "You are a UI/UX designer focused on intuitive, beautiful, accessible interfaces. Follow the detailed guidelines in your skill resource.")

----------------------------------------------------------------------------
(* build_mcp_servers *)

\* d.copy() on a descriptor: a new dict with the same keys, whose values are
\* the same objects (the args list and the env dict are shared, not copied)
dict_copy(d) == d

\* the loop body of lines 123-126 for extra_mcps[i], then the rest of the loop
RECURSIVE add_extra_mcps(_, _, _, _)
add_extra_mcps(servers, dicts, extra_mcps, i) ==
    IF i > Len(extra_mcps) THEN [servers |-> servers, dicts |-> dicts]
    ELSE LET mcp_name == extra_mcps[i]
             copied   == dict_copy(MCP_SERVERS[mcp_name])
         IN  IF "env" \in DOMAIN MCP_SERVERS[mcp_name]
             THEN LET fresh == Len(dicts) + 1
                  IN  add_extra_mcps(
                          (mcp_name :> [copied EXCEPT !.env = fresh]) @@ servers,
                          Append(dicts, dicts[MCP_SERVERS[mcp_name].env]),
                          extra_mcps, i + 1)
             ELSE add_extra_mcps((mcp_name :> copied) @@ servers,
                                 dicts, extra_mcps, i + 1)

\* variant: a default of ["context7"] instead of []
extra_mcps_default_context7(agent_name) ==
    IF agent_name \in DOMAIN AGENT_MCPS THEN AGENT_MCPS[agent_name] ELSE <<"context7">>

\* variant: the loop stops one entry short of the end of the list
extra_mcps_drop_last(agent_name) ==
    IF agent_name \in DOMAIN AGENT_MCPS /\ AGENT_MCPS[agent_name] # <<>>
    THEN SubSeq(AGENT_MCPS[agent_name], 1, Len(AGENT_MCPS[agent_name]) - 1)
    ELSE <<>>

\* AGENT_MCPS.get(agent_name, [])
extra_mcps_of(agent_name) ==
    IF agent_name \in DOMAIN AGENT_MCPS THEN AGENT_MCPS[agent_name] ELSE <<>>

\* variant: only filesystem is common to all agents
build_mcp_servers_without_memory(agent_name, dicts) ==
    add_extra_mcps(
        ("filesystem" :> dict_copy(MCP_SERVERS["filesystem"])),
        dicts,
        IF agent_name \in DOMAIN AGENT_MCPS THEN AGENT_MCPS[agent_name] ELSE <<>>,
        1)

\* build_mcp_servers(agent_name), run with the env dict objects `dicts` alive:
\* the mapping it returns and the env dict objects alive afterwards
build_mcp_servers(agent_name, dicts) ==
    add_extra_mcps(
        ("filesystem" :> dict_copy(MCP_SERVERS["filesystem"])) @@
        ("memory" :> dict_copy(MCP_SERVERS["memory"])),
        dicts, extra_mcps_of(agent_name), 1)

\* what a descriptor says once its references are followed (what json.dump
\* writes for it, what a reader of the mapping sees)
descriptor_value(d, lists, dicts) ==
    IF "env" \in DOMAIN d
    THEN [command |-> d.command, args |-> lists[d.args], env |-> dicts[d.env]]
    ELSE [command |-> d.command, args |-> lists[d.args]]

mapping_value(servers, lists, dicts) ==
    [s \in DOMAIN servers |-> descriptor_value(servers[s], lists, dicts)]

----------------------------------------------------------------------------
(* generate_skill_md and the record written back *)

\* variant: SKILL.md gets the truncated prompt instead of the full one
generate_skill_md_truncated(name, description, prompt_content) ==
    "---\nname: " \o name \o "\ndescription: " \o description
        \o "\n---\n\n" \o Prefix(prompt_content, PromptBudget) \o "\n"

generate_skill_md(name, description, prompt_content) ==
    "---\nname: " \o name \o "\ndescription: " \o description
        \o "\n---\n\n" \o prompt_content \o "\n"

\* variant: the fallback is prompt[1:201]
brief_prompt_shifted(agent_name, prompt) ==
    IF agent_name \in DOMAIN BRIEF_PROMPTS
    THEN BRIEF_PROMPTS[agent_name]
    ELSE SubSeq(prompt, 2, Min(Len(prompt), PromptBudget + 1))

\* variant: the fallback is prompt[:199]
brief_prompt_short(agent_name, prompt) ==
    IF agent_name \in DOMAIN BRIEF_PROMPTS
    THEN BRIEF_PROMPTS[agent_name]
    ELSE Prefix(prompt, PromptBudget - 1)

\* BRIEF_PROMPTS.get(agent_name, agent["prompt"][:200])
brief_prompt(agent_name, prompt) ==
    IF agent_name \in DOMAIN BRIEF_PROMPTS
    THEN BRIEF_PROMPTS[agent_name]
    ELSE Prefix(prompt, PromptBudget)

\* variant: the record read is updated in place, so its other keys survive
updated_agent_in_place(a, agent_name) ==
    LET built == build_mcp_servers(agent_name, InitDicts)
    IN  [name           |-> a.name,
         description    |-> a.description,
         tools          |-> a.tools,
         allowedTools   |-> a.allowedTools,
         prompt         |-> brief_prompt(agent_name, a.prompt),
         includeMcpJson |-> FALSE,
         mcpServers     |-> mapping_value(built.servers, InitLists, built.dicts),
         resources      |-> <<"file://.kiro/steering/**/*.md",
                              "skill://.kiro/skills/" \o agent_name \o "/SKILL.md">>]
        @@ a

\* the dict literal of lines 163-175; process_agents runs in a fresh
\* interpreter, so the tables are as loaded
updated_agent(a, agent_name) ==
    LET built == build_mcp_servers(agent_name, InitDicts)
    IN  [name           |-> a.name,
         description    |-> a.description,
         tools          |-> a.tools,
         allowedTools   |-> a.allowedTools,
         prompt         |-> brief_prompt(agent_name, a.prompt),
         includeMcpJson |-> FALSE,
         mcpServers     |-> mapping_value(built.servers, InitLists, built.dicts),
         resources      |-> <<"file://.kiro/steering/**/*.md",
                              "skill://.kiro/skills/" \o agent_name \o "/SKILL.md">>]

\* variant: every key is read before SKILL.md is written
skill_fields_all == {"name", "description", "prompt", "tools", "allowedTools"}

\* keys read before SKILL.md is written (lines 148-150), and after (166-167)
skill_fields == {"name", "description", "prompt"}
update_fields == {"tools", "allowedTools"}

\* a file as json.load sees it: text that parses to `data`, or text that does not
json_file(fmt, data) == [valid |-> TRUE, fmt |-> fmt, data |-> data]
not_json == [valid |-> FALSE, fmt |-> "text", data |-> [text |-> "# notes"]]

\* json.dump(obj, f, indent=4) followed by f.write("\n")
json_dump(obj) == json_file("indent4", obj)

\* a SKILL.md file, or none
skill_file(text) == [exists |-> TRUE, text |-> text]
no_file == [exists |-> FALSE, text |-> ""]

----------------------------------------------------------------------------
(* The directory the model runs on *)

FileNames == {"README.md", "code-reviewer.json", "data-scientist.json",
              "my-agent.json"}

\* variant: os.listdir(AGENTS_DIR) as the file system returns it, here in
\* descending order
listing_unsorted ==
    LET asc == sorted(FileNames)
    IN  [i \in 1..Len(asc) |-> asc[Len(asc) + 1 - i]]

\* sorted(os.listdir(AGENTS_DIR))
listing == sorted(FileNames)

\* filename.replace(".json", "")
agent_name_of(filename) == replace(filename, ".json", "")

JsonFiles == {f \in FileNames : endswith(f, ".json")}
AgentNames == {agent_name_of(f) : f \in JsonFiles}

Ten == "0123456789"
Hundred == Ten \o Ten \o Ten \o Ten \o Ten \o Ten \o Ten \o Ten \o Ten \o Ten
ShortPrompt == "You review code.\nBe strict."
BudgetPrompt == Hundred \o Hundred
LongPrompt == Hundred \o Hundred \o "!"

full_record(prompt) ==
    [name |-> "Agent", description |-> "Does things", prompt |-> prompt,
     tools |-> <<"read", "write">>, allowedTools |-> <<"read">>]

without(r, k) == [f \in DOMAIN r \ {k} |-> r[f]]

\* contents an agent file may have before the first run
InitialFiles ==
    { json_file("compact", [model |-> "some-model"] @@ full_record(ShortPrompt)),
      json_file("indent4", full_record(BudgetPrompt)),
      json_file("indent4", full_record(LongPrompt)),
      json_file("indent4", without(full_record(LongPrompt), "tools")),
      json_file("indent4", without(full_record(ShortPrompt), "allowedTools")),
      json_file("indent4", without(full_record(LongPrompt), "prompt")),
      json_file("indent4", without(full_record(ShortPrompt), "description")),
      json_file("indent4", without(full_record(ShortPrompt), "name")),
      not_json }

stale_skill == skill_file("stale\n")
no_agent == [none |-> TRUE]

----------------------------------------------------------------------------
(* process_agents *)

snapshot == [agents |-> agents, skills |-> skills]

filename == listing[idx]
agent_name == agent_name_of(filename)

PipeInit ==
    /\ agents \in {d \in [FileNames -> InitialFiles] :
                      \A f \in FileNames \ JsonFiles : d[f] = not_json}
    /\ skills \in [AgentNames -> {no_file, stale_skill}]
    /\ status = "idle"
    /\ idx = 1
    /\ pc = "load"
    /\ agent = no_agent
    /\ runs = 0
    /\ orig = agents
    /\ runStart = snapshot
    /\ outputs = <<>>

\* the script is started (lines 185-187)
StartRun ==
    /\ status \in {"idle", "done", "aborted"}
    /\ runs < MaxRuns
    /\ runs' = runs + 1
    /\ status' = "running"
    /\ idx' = 1
    /\ pc' = "load"
    /\ agent' = no_agent
    /\ runStart' = snapshot
    /\ UNCHANGED <<agents, skills, orig, outputs>>

\* lines 134-135: not an agent record
SkipFile ==
    /\ status = "running" /\ pc = "load" /\ idx <= Len(listing)
    /\ ~endswith(filename, ".json")
    /\ idx' = idx + 1
    /\ UNCHANGED <<agents, skills, status, pc, agent, runs, orig, runStart, outputs>>

\* line 141: json.load raises
LoadFault ==
    /\ status = "running" /\ pc = "load" /\ idx <= Len(listing)
    /\ endswith(filename, ".json")
    /\ ~agents[filename].valid
    /\ status' = "aborted"
    /\ UNCHANGED <<agents, skills, idx, pc, agent, runs, orig, runStart, outputs>>

\* lines 148-150: KeyError before anything is written
SkillKeyFault ==
    /\ status = "running" /\ pc = "load" /\ idx <= Len(listing)
    /\ endswith(filename, ".json")
    /\ agents[filename].valid
    /\ ~(skill_fields \subseteq DOMAIN agents[filename].data)
    /\ status' = "aborted"
    /\ UNCHANGED <<agents, skills, idx, pc, agent, runs, orig, runStart, outputs>>

\* lines 140-157: load the record, write SKILL.md
WriteSkill ==
    /\ status = "running" /\ pc = "load" /\ idx <= Len(listing)
    /\ endswith(filename, ".json")
    /\ agents[filename].valid
    /\ skill_fields \subseteq DOMAIN agents[filename].data
    /\ agent' = agents[filename].data
    /\ skills' = [skills EXCEPT ![agent_name] =
                     skill_file(generate_skill_md(agent'.name, agent'.description,
                                                  agent'.prompt))]
    /\ pc' = "update"
    /\ UNCHANGED <<agents, status, idx, runs, orig, runStart, outputs>>

\* lines 166-167: KeyError after SKILL.md was written
UpdateKeyFault ==
    /\ status = "running" /\ pc = "update"
    /\ ~(update_fields \subseteq DOMAIN agent)
    /\ status' = "aborted"
    /\ UNCHANGED <<agents, skills, idx, pc, agent, runs, orig, runStart, outputs>>

\* lines 159-182: write the record back
RewriteAgent ==
    /\ status = "running" /\ pc = "update"
    /\ update_fields \subseteq DOMAIN agent
    /\ agents' = [agents EXCEPT ![filename] = json_dump(updated_agent(agent, agent_name))]
    /\ idx' = idx + 1
    /\ pc' = "load"
    /\ agent' = no_agent
    /\ UNCHANGED <<skills, status, runs, orig, runStart, outputs>>

\* the loop of line 133 is exhausted
FinishRun ==
    /\ status = "running" /\ pc = "load" /\ idx = Len(listing) + 1
    /\ status' = "done"
    /\ outputs' = Append(outputs, snapshot)
    /\ UNCHANGED <<agents, skills, idx, pc, agent, runs, orig, runStart>>

process_agents ==
    \/ SkipFile \/ LoadFault \/ SkillKeyFault \/ WriteSkill
    \/ UpdateKeyFault \/ RewriteAgent \/ FinishRun

----------------------------------------------------------------------------
(* Callers of build_mcp_servers that keep the mappings and change them *)

\* identifiers callers ask for: every key of AGENT_MCPS and one that is no key
Identifiers == DOMAIN AGENT_MCPS \cup {"my-agent"}

\* MCP_SERVERS as a reader sees it now
table_value == mapping_value(MCP_SERVERS, list_heap, dict_heap)

\* the code that calls build_mcp_servers and keeps what it returns
Callers == {"first", "second"}

\* the mapping caller c holds, as a reader sees it now
resolved_value(c) == mapping_value(resolved[c].servers, list_heap, dict_heap)

McpIdle ==
    /\ list_heap = InitLists
    /\ dict_heap = InitDicts
    /\ resolved = <<>>
    /\ mutations = 0

\* servers = build_mcp_servers(name); `returned` and `table` record what the
\* mapping and MCP_SERVERS said when the call returned, `touched` whether the
\* caller has changed anything through its mapping since
Build(c, name) ==
    /\ c \notin DOMAIN resolved
    /\ LET built == build_mcp_servers(name, dict_heap)
       IN  /\ dict_heap' = built.dicts
           /\ resolved' = resolved @@ (c :>
                  [agent_name |-> name,
                   servers    |-> built.servers,
                   returned   |-> mapping_value(built.servers, list_heap, built.dicts),
                   table      |-> mapping_value(MCP_SERVERS, list_heap, built.dicts),
                   touched    |-> FALSE])
    /\ UNCHANGED <<list_heap, mutations>>

\* servers[s]["command"] = "sh"
SetCommand(i, s) ==
    /\ mutations < MaxMutations
    /\ resolved[i].servers[s].command # "sh"
    /\ resolved' = [resolved EXCEPT ![i].servers[s].command = "sh",
                                    ![i].touched = TRUE]
    /\ mutations' = mutations + 1
    /\ UNCHANGED <<list_heap, dict_heap>>

\* servers[s]["args"].append("--verbose")
AppendArg(i, s) ==
    /\ mutations < MaxMutations
    /\ list_heap' = [list_heap EXCEPT ![resolved[i].servers[s].args] =
                        Append(@, "--verbose")]
    /\ resolved' = [resolved EXCEPT ![i].touched = TRUE]
    /\ mutations' = mutations + 1
    /\ UNCHANGED dict_heap

\* servers[s]["env"]["AWS_PROFILE"] = "prod"
SetEnv(i, s) ==
    /\ mutations < MaxMutations
    /\ "env" \in DOMAIN resolved[i].servers[s]
    /\ dict_heap[resolved[i].servers[s].env]["AWS_PROFILE"] # "prod"
    /\ dict_heap' = [dict_heap EXCEPT ![resolved[i].servers[s].env] =
                        ("AWS_PROFILE" :> "prod") @@ @]
    /\ resolved' = [resolved EXCEPT ![i].touched = TRUE]
    /\ mutations' = mutations + 1
    /\ UNCHANGED list_heap

Mutate ==
    \E i \in DOMAIN resolved : \E s \in DOMAIN resolved[i].servers :
        SetCommand(i, s) \/ AppendArg(i, s) \/ SetEnv(i, s)

PipeIdle ==
    /\ agents = [f \in FileNames |-> not_json]
    /\ skills = [n \in AgentNames |-> no_file]
    /\ status = "idle"
    /\ idx = 1
    /\ pc = "load"
    /\ agent = no_agent
    /\ runs = 0
    /\ orig = agents
    /\ runStart = snapshot
    /\ outputs = <<>>

----------------------------------------------------------------------------
(* Specifications *)

Init == PipeInit /\ McpIdle

Next == (StartRun \/ process_agents) /\ UNCHANGED mcpVars

\* runs of the script over a directory
Spec == Init /\ [][Next]_vars

McpInit == PipeIdle /\ McpIdle

McpNext == ((\E c \in Callers, name \in Identifiers : Build(c, name)) \/ Mutate) /\ UNCHANGED pipeVars

\* callers of build_mcp_servers
SpecMcp == McpInit /\ [][McpNext]_vars

----------------------------------------------------------------------------
(* Properties of runs of process_agents (checked under Spec) *)

\* position of a file in the sorted listing
Pos(f) == CHOOSE i \in 1..Len(listing) : listing[i] = f

\* the record of f was written back in the current run
Processed(f) == f \in JsonFiles /\ Pos(f) < idx

\* the record the current run read, or will read, from f
input(f) == runStart.agents[f].data

\* text is the name/description header followed by the prompt body
doc_holds(text, name, description, prompt) ==
    LET header == "---\nname: " \o name \o "\ndescription: " \o description \o "\n---\n"
    IN  /\ Len(text) >= Len(header)
        /\ SubSeq(text, 1, Len(header)) = header
        /\ SubSeq(text, Len(header) + 1, Len(text)) = "\n" \o prompt \o "\n"

\* the SKILL.md of f's agent exists and holds the header and prompt of record r
skill_is_from(f, r) ==
    /\ skills[agent_name_of(f)].exists
    /\ doc_holds(skills[agent_name_of(f)].text, r.name, r.description, r.prompt)

\* what the summarizer is specified to return for a prompt of agent n
summary(n, p) ==
    IF n \in DOMAIN BRIEF_PROMPTS THEN BRIEF_PROMPTS[n]
    ELSE IF Len(p) <= 200 THEN p ELSE SubSeq(p, 1, 200)

AllFields == {"name", "description", "prompt", "tools", "allowedTools"}

\* the set of the elements of a sequence
Range(q) == {q[k] : k \in 1..Len(q)}

\* the extras AGENT_MCPS lists for identifier n, none when it lists nothing
listed_extras(n) == IF n \in DOMAIN AGENT_MCPS THEN Range(AGENT_MCPS[n]) ELSE {}

\* C1 as stated: after any number of complete runs, every agent's SKILL.md
\* holds, after the header, the prompt its record held before the first run.
C1_DocKeepsOriginalPrompt ==
    status = "done" => \A f \in JsonFiles : skill_is_from(f, orig[f].data)

\* C1 as amended: after each complete run, every agent's SKILL.md holds, after
\* the header, the prompt its record held when that run started; that is the
\* full original prompt after the first run and the summarizer's output for
\* the original prompt after every later run.
C1_DocHoldsPromptAtRunStart ==
    status = "done" =>
        \A f \in JsonFiles :
            /\ skill_is_from(f, input(f))
            /\ runs = 1 => input(f).prompt = orig[f].data.prompt
            /\ runs > 1 => input(f).prompt = summary(agent_name_of(f), orig[f].data.prompt)

\* a second run completed and left a SKILL.md without the original prompt
C1_Witness ==
    /\ status = "done" /\ runs >= 2
    /\ \E f \in JsonFiles :
          /\ skill_is_from(f, input(f))
          /\ ~skill_is_from(f, orig[f].data)

\* C2: the third complete run leaves exactly the files the second run left
\* (records and SKILL.md files, brief-table agents and others alike), and so
\* does every later run.
C2_RunsTwoAndThreeAgree ==
    \A k \in 2..(Len(outputs) - 1) : outputs[k + 1] = outputs[k]

\* three runs completed, the first of which did not yet leave the final files,
\* over a directory with an agent outside the brief table and a long prompt
C2_Witness ==
    /\ Len(outputs) >= 3
    /\ outputs[2] # outputs[1]
    /\ \E f \in JsonFiles :
          /\ agent_name_of(f) \notin DOMAIN BRIEF_PROMPTS
          /\ Len(orig[f].data.prompt) > 200

\* C5: the prompt written back is the curated string for an identifier of
\* BRIEF_PROMPTS, and otherwise the first 200 characters of the prompt read
\* (all of it when it is no longer than that), hence at most 200 characters.
C5_Summarizer ==
    \A f \in JsonFiles : Processed(f) =>
        LET n   == agent_name_of(f)
            p   == input(f).prompt
            out == agents[f].data.prompt
        IN  /\ n \in DOMAIN BRIEF_PROMPTS => out = BRIEF_PROMPTS[n]
            /\ n \notin DOMAIN BRIEF_PROMPTS =>
                  /\ Len(p) <= 200 => out = p
                  /\ Len(p) > 200 => out = SubSeq(p, 1, 200)
                  /\ Len(out) <= 200

\* one run has written back a curated prompt, a truncated one and a whole one
C5_Witness ==
    /\ \E f \in JsonFiles : Processed(f) /\ agent_name_of(f) \in DOMAIN BRIEF_PROMPTS
    /\ \E f \in JsonFiles :
          /\ Processed(f) /\ agent_name_of(f) \notin DOMAIN BRIEF_PROMPTS
          /\ Len(input(f).prompt) > 200 /\ Len(agents[f].data.prompt) = 200
    /\ runs = 1

\* C8: a record written back has exactly the eight fields; name, description,
\* tools and allowedTools are those read, prompt is the summary, includeMcpJson
\* is false, mcpServers is the resolved mapping of the identifier and resources
\* is the steering glob followed by the agent's own SKILL.md locator.
C8_RewrittenRecord ==
    \A f \in JsonFiles : Processed(f) =>
        LET n    == agent_name_of(f)
            r    == agents[f].data
            keys == {"filesystem", "memory"} \cup listed_extras(n)
        IN  /\ agents[f].valid
            /\ DOMAIN r = {"name", "description", "tools", "allowedTools", "prompt",
                           "includeMcpJson", "mcpServers", "resources"}
            /\ r.name = input(f).name
            /\ r.description = input(f).description
            /\ r.tools = input(f).tools
            /\ r.allowedTools = input(f).allowedTools
            /\ r.prompt = summary(n, input(f).prompt)
            /\ r.includeMcpJson = FALSE
            /\ r.mcpServers =
                  [s \in keys |-> descriptor_value(MCP_SERVERS[s], InitLists, InitDicts)]
            /\ r.resources = <<"file://.kiro/steering/**/*.md",
                               "skill://.kiro/skills/" \o n \o "/SKILL.md">>

\* a record with a field outside the eight was written back without it
C8_Witness ==
    \E f \in JsonFiles :
        /\ Processed(f)
        /\ "model" \in DOMAIN input(f)
        /\ "model" \notin DOMAIN agents[f].data
        /\ "dynamodb" \in DOMAIN agents[f].data.mcpServers
        /\ "env" \in DOMAIN agents[f].data.mcpServers["dynamodb"]

\* C9: when a run aborts on a record, every agent record whose file name sorts
\* before the failing one is rewritten and has its SKILL.md written, and every
\* one whose file name sorts after it has both files as the run found them.
C9_AbortKeepsPrefix ==
    status = "aborted" =>
        \A f \in JsonFiles \ {filename} :
            /\ StrLess(f, filename) =>
                  /\ runStart.agents[f].valid
                  /\ AllFields \subseteq DOMAIN input(f)
                  /\ agents[f] = json_dump(updated_agent(input(f), agent_name_of(f)))
                  /\ skill_is_from(f, input(f))
            /\ StrLess(filename, f) =>
                  /\ agents[f] = runStart.agents[f]
                  /\ skills[agent_name_of(f)] = runStart.skills[agent_name_of(f)]

\* a run aborted on the middle record: the one before it was changed, the one
\* after it was not
C9_Witness ==
    /\ status = "aborted"
    /\ \E f \in JsonFiles : StrLess(f, filename) /\ agents[f] # runStart.agents[f]
    /\ \E f \in JsonFiles : StrLess(filename, f) /\ runStart.agents[f].valid
                               /\ AllFields \subseteq DOMAIN input(f)

\* C10: SKILL.md is written before the record, and the record only after all
\* five fields were read: a record with name, description and prompt but
\* without tools or allowedTools aborts the run with its SKILL.md written and
\* its record file untouched; a record without name, description or prompt
\* aborts the run with neither file written.
C10_SkillBeforeRecord ==
    /\ (status = "running" /\ pc = "update") =>
          /\ skill_is_from(filename, input(filename))
          /\ agents[filename] = runStart.agents[filename]
    /\ \A f \in JsonFiles : Processed(f) => AllFields \subseteq DOMAIN input(f)
    /\ \A f \in JsonFiles :
          (runStart.agents[f].valid /\ ~(AllFields \subseteq DOMAIN input(f)))
              => status # "done"
    /\ status = "aborted" =>
          LET d == runStart.agents[filename]
          IN  /\ ( /\ d.valid
                   /\ {"name", "description", "prompt"} \subseteq DOMAIN d.data
                   /\ ~({"tools", "allowedTools"} \subseteq DOMAIN d.data) )
                  => /\ skill_is_from(filename, d.data)
                     /\ agents[filename] = d
              /\ ( /\ d.valid
                   /\ ~({"name", "description", "prompt"} \subseteq DOMAIN d.data) )
                  => /\ skills[agent_name] = runStart.skills[agent_name]
                     /\ agents[filename] = d

\* a run aborted on a record without tools, after replacing a stale SKILL.md
C10_Witness ==
    /\ status = "aborted"
    /\ runStart.agents[filename].valid
    /\ "tools" \notin DOMAIN input(filename)
    /\ runStart.skills[agent_name] = stale_skill
    /\ skill_is_from(filename, input(filename))
    /\ agents[filename] = runStart.agents[filename]

----------------------------------------------------------------------------
(* Properties of build_mcp_servers and its callers (checked under SpecMcp) *)

\* MCP_SERVERS as it reads when the module is loaded
loaded_table == mapping_value(MCP_SERVERS, InitLists, InitDicts)

\* C3 as stated: whatever a caller changes through its own mapping (a command,
\* an argument sequence, an environment mapping), MCP_SERVERS reads as when it
\* was loaded and every mapping its holder has not changed reads as returned.
C3_IndependentCopies ==
    /\ table_value = loaded_table
    /\ \A c \in DOMAIN resolved :
          ~resolved[c].touched => resolved_value(c) = resolved[c].returned

\* C4: for an identifier of AGENT_MCPS the returned mapping has the keys
\* filesystem, memory and the listed extras, 2 + (number of extras) entries,
\* and each entry reads as the same-named entry of MCP_SERVERS.
C4_BaselinePlusExtras ==
    \A c \in DOMAIN resolved :
        resolved[c].agent_name \in DOMAIN AGENT_MCPS =>
            LET r      == resolved[c].returned
                extras == AGENT_MCPS[resolved[c].agent_name]
            IN  /\ DOMAIN r = {"filesystem", "memory"} \cup Range(extras)
                /\ {"filesystem", "memory"} \subseteq DOMAIN r
                /\ Cardinality(DOMAIN r) = 2 + Len(extras)
                /\ \A s \in DOMAIN r :
                      /\ r[s] = resolved[c].table[s]
                      /\ DOMAIN r[s] = DOMAIN MCP_SERVERS[s]

\* both callers hold a mapping with extras that carry an environment, one of
\* them resolved from the table as loaded and read before anything changed
C4_Witness ==
    /\ DOMAIN resolved = Callers
    /\ resolved["first"].agent_name = "data-scientist"
    /\ resolved["second"].agent_name = "python-test-engineer"
    /\ resolved["first"].table = loaded_table
    /\ resolved["first"].returned["dynamodb"].env["AWS_REGION"] = "ap-southeast-2"
    /\ mutations = 0

\* C6: for an identifier with an empty list in AGENT_MCPS, or with none, the
\* call returns a mapping with exactly filesystem and memory; context7 and the
\* other optional servers are absent.
C6_BaselineOnly ==
    \A c \in DOMAIN resolved :
        listed_extras(resolved[c].agent_name) = {} =>
            /\ DOMAIN resolved[c].returned = {"filesystem", "memory"}
            /\ "context7" \notin DOMAIN resolved[c].returned
            /\ DOMAIN resolved[c].returned \cap
                  (DOMAIN MCP_SERVERS \ {"filesystem", "memory"}) = {}

\* one caller resolved "code-reviewer", the other an identifier outside AGENT_MCPS
C6_Witness ==
    /\ DOMAIN resolved = Callers
    /\ resolved["first"].agent_name = "code-reviewer"
    /\ resolved["second"].agent_name = "my-agent"
    /\ "my-agent" \notin DOMAIN AGENT_MCPS

\* C7: for "typescript-test-engineer" the keys of the returned mapping are
\* exactly filesystem, memory, context7, sequential-thinking, puppeteer and
\* playwright.
C7_TypescriptTestEngineer ==
    \A c \in DOMAIN resolved :
        resolved[c].agent_name = "typescript-test-engineer" =>
            /\ DOMAIN resolved[c].returned =
                  {"filesystem", "memory", "context7", "sequential-thinking",
                   "puppeteer", "playwright"}
            /\ Cardinality(DOMAIN resolved[c].returned) = 6

\* a caller resolved "typescript-test-engineer"
C7_Witness ==
    \E c \in DOMAIN resolved :
        /\ resolved[c].agent_name = "typescript-test-engineer"
        /\ "playwright" \in DOMAIN resolved[c].returned

====
